---- MODULE Spec2Model ----
(***************************************************************************)
(* A model of the GraphRAG + AutoGen + Ollama glue scripts:                *)
(*   - appUI_final_v3.py: the Chainlit handlers and search_docs            *)
(*   - document_processors/: the PDF and Word converters and the           *)
(*     universal processor (configuration loading, process_file, the       *)
(*     worker pool)                                                        *)
(*   - init_graphrag.py and utils/check_deps.py: the set-up scripts        *)
(* Strings the program builds are modelled as sequences of tokens, so that *)
(* formatting is a computation and not the identity.                       *)
(***************************************************************************)
EXTENDS Integers, Sequences, FiniteSets, TLC

(***************************************************************************)
(* Bounds of the model.                                                    *)
(***************************************************************************)
MaxResults == 2
MaxCalls == 1
MaxPages == 2
MaxWords == 2
MaxFiles == 2
MaxWorkers == 2

(***************************************************************************)
(* Constants of the program.                                               *)
(***************************************************************************)
\* src/document_processors/pdf_processor.py:40 and :130
OcrMinChars == 50

(***************************************************************************)
(* State.                                                                  *)
(***************************************************************************)
\* appUI_final_v3.py
VARIABLES
    user_session,   \* cl.user_session of the chat session: key -> value
    chat_started,   \* on_chat_start has run for the session
    settings_seen,  \* the settings of the last on_settings_update
    sent,           \* the UI messages sent by the last handler, in order
    health,         \* what the health request of on_chat_start came to
    msg_pc,         \* on_message: "idle", or "chatting" inside initiate_chat
    msg,            \* the message being handled: query, settings in force
    ncalls,         \* the search_docs calls made for the message so far
    last_call,      \* the last search_docs call: parameters and how it ended
    answer          \* the last message answered, as msg

\* appUI_final_v3.py: the execution of the module, top to bottom
VARIABLES
    app_pc,         \* "start", "settings", "agents", "handlers", "serving", "exited"
    startup_env,    \* what the checks found: the "output" directory, settings.yaml
    startup_out,    \* the messages sent and the lines printed by the checks
    exit,           \* how the process ended and its exit status
    agents,         \* the AutoGen agents created
    handlers        \* the Chainlit handlers registered

startupVars == <<app_pc, startup_env, startup_out, exit, agents, handlers>>

chatVars == <<user_session, chat_started, settings_seen, sent, health, msg_pc,
              msg, ncalls, last_call, answer, startupVars>>

\* document_processors/pdf_processor.py and word_processor.py
VARIABLES
    conv_in,    \* the arguments and environment of the last convert_to_markdown
    conv_out    \* what the call did: result, metadata, file written, OCR, log

convVars == <<conv_in, conv_out>>

\* document_processors/universal_processor.py: one UniversalDocumentProcessor
VARIABLES
    udp_in,     \* the configuration path given to the constructor, and the file
    udp         \* the constructed object, or the exception the constructor raised

udpVars == <<udp_in, udp>>

\* document_processors/universal_processor.py: one call of process_directory
VARIABLES
    pd_pc,          \* "idle", "collecting" (inside the with block), "returned"
    listing,        \* the extensions of the files os.walk finds, in its order
    max_workers,    \* self.max_workers
    files_to_process,   \* the files submitted, in order (indices into listing)
    future,         \* per submitted file: "pending", "running", or how
                    \* process_file ended: "ok", "failed", "raised"
    yielded,        \* the futures as_completed has yielded
    results         \* the list process_directory builds

pdVars == <<pd_pc, listing, max_workers, files_to_process, future, yielded, results>>

\* init_graphrag.py: one run of main
VARIABLES
    ig_pc,      \* "idle", the function main calls next, "complete", "returned", "raised"
    ig_existed, \* the directories that existed when main was called
    ig_dirs,    \* the directories that exist
    ig_files,   \* the files the run has written
    ig_trace,   \* the functions main has called, in order, and how each ended
    ig_out      \* the lines printed

igVars == <<ig_pc, ig_existed, ig_dirs, ig_files, ig_trace, ig_out>>

\* utils/check_deps.py: one run of main
VARIABLES
    cd_pc,          \* "idle", the check main makes next, "status", "returned"
    cd_env,         \* the modules installed, whether ollama is in PATH, the
                    \* models `ollama list` names
    cd_modules,     \* all_modules_installed
    cd_commands,    \* all_commands_available
    cd_out          \* the lines printed

cdVars == <<cd_pc, cd_env, cd_modules, cd_commands, cd_out>>

\* document_processors/universal_processor.py: one call of process_file
VARIABLES
    pf_in,      \* the file, the configuration and what the file system does
    pf_out      \* the record process_file returned

pfVars == <<pf_in, pf_out>>

vars == <<chatVars, convVars, udpVars, pdVars, igVars, cdVars, pfVars>>
notChat == <<convVars, udpVars, pdVars, igVars, cdVars, pfVars>>
notConv == <<chatVars, udpVars, pdVars, igVars, cdVars, pfVars>>
notUdp == <<chatVars, convVars, pdVars, igVars, cdVars, pfVars>>
notPd == <<chatVars, convVars, udpVars, igVars, cdVars, pfVars>>
notIg == <<chatVars, convVars, udpVars, pdVars, cdVars, pfVars>>
notCd == <<chatVars, convVars, udpVars, pdVars, igVars, pfVars>>
notPf == <<chatVars, convVars, udpVars, pdVars, igVars, cdVars>>

(***************************************************************************)
(* Small helpers.                                                          *)
(***************************************************************************)
SeqsUpTo(S, n) == UNION {[1..k -> S] : k \in 0..n}

RECURSIVE JoinWith(_, _)
\* sep.join(parts): the parts, with sep between consecutive ones.
JoinWith(sep, parts) ==
    IF parts = <<>> THEN <<>>
    ELSE IF Len(parts) = 1 THEN Head(parts)
    ELSE Head(parts) \o sep \o JoinWith(sep, Tail(parts))

(***************************************************************************)
(* appUI_final_v3.py                                                       *)
(***************************************************************************)
Unset == "unset"
SearchMethods == {"global", "local"}
Models == {"llama3", "mistral"}
Queries == {"q1", "q2"}
DocIds == {"d1", "d2"}
Contents == {"c1", "c2"}

\* src/appUI_final_v3.py:32-39: the one entry of config_list_llama.
config_list_llama == [model |-> "llama3", api_base |-> "http://localhost:8000/v1"]

\* src/appUI_final_v3.py:73-92 and 102-110: the assistant is created once, at
\* import, with llm_config; no handler assigns to it afterwards.
assistant_llm_config == [config_list |-> <<config_list_llama>>, timeout |-> 60]

\* What the search library can do with one call: fail at a step with an
\* exception of some class, or come back with local_results.
SearchSteps == {"params", "searcher", "search_kg", "results"}
ExcClasses == {"ConnectionError", "Timeout", "ValueError", "FileNotFoundError"}
\* The subclasses of requests.exceptions.RequestException among them.
RequestExceptions == {"ConnectionError", "Timeout"}
Docs == [doc_id : DocIds, content : Contents]
SearchOutcomes ==
    [fail : {"none"}, exc : {"none"}, local_results : SeqsUpTo(Docs, MaxResults)]
    \cup [fail : SearchSteps, exc : ExcClasses, local_results : {<<>>}]

\* A mutant of FormatResults: the blocks are joined by a single newline.
FormatResultsOneNewline(local_results) ==
    IF local_results # <<>>
    THEN JoinWith(<<"\n">>,
             [i \in 1..Len(local_results) |->
                 <<"Document: ", local_results[i].doc_id,
                   "\nContent: ", local_results[i].content>>])
    ELSE <<"No relevant documents found.">>

\* src/appUI_final_v3.py:60-66
FormatResults(local_results) ==
    IF local_results # <<>>
    THEN JoinWith(<<"\n\n">>,
             [i \in 1..Len(local_results) |->
                 <<"Document: ", local_results[i].doc_id,
                   "\nContent: ", local_results[i].content>>])
    ELSE <<"No relevant documents found.">>

\* src/appUI_final_v3.py:67: the except clause names RequestException only.
SearchDocsCatches(exc) == exc \in RequestExceptions

\* src/appUI_final_v3.py:42-70: one call of search_docs(query), the library
\* behaving as `o`.  The record holds the parameters the search is issued
\* with and how the call ends: a returned string or a propagated exception.
SearchDocs(query, o) ==
    [ query |-> query,
      make_global |-> TRUE,
      num_limit |-> 10,
      issued |-> o.fail \in {"none", "search_kg", "results"},
      outcome |-> o,
      kind |-> IF o.fail = "none" \/ SearchDocsCatches(o.exc)
                  THEN "return" ELSE "raise",
      value |-> IF o.fail = "none" THEN FormatResults(o.local_results)
                ELSE IF SearchDocsCatches(o.exc)
                     THEN <<"Error searching documents: ", o.exc>>
                     ELSE <<o.exc>> ]

HealthOutcomes == {"200", "404", "503", "RequestException"}

NoSettings == [search_method |-> Unset, model |-> Unset]
NoCall ==
    [ query |-> Unset, make_global |-> TRUE, num_limit |-> 10, issued |-> FALSE,
      outcome |-> [fail |-> Unset, exc |-> Unset, local_results |-> <<>>],
      kind |-> Unset, value |-> <<>> ]
NoAnswer == [query |-> Unset, search_method |-> Unset, model |-> Unset]

\* How the "output" directory and settings.yaml are found at startup.
OutputDirStates == {"exists", "missing"}
SettingsFileStates == {"ok", "FileNotFoundError", "PermissionError", "YAMLError"}
\* cl.run_sync(cl.Message(...).send()) while the module is loaded, outside
\* any chat session: the message is sent, or the library raises.
RunSyncOutcomes == {"sent", "raised"}

NoStartupEnv == [output |-> Unset, settings |-> Unset]
NoExit == [how |-> Unset, status |-> 0]
\* sys.exit(1)
SysExit1 == [how |-> "sys.exit", status |-> 1]
\* An exception no handler catches ends the interpreter with a traceback
\* and status 1.
Uncaught == [how |-> "exception", status |-> 1]

\* src/appUI_final_v3.py:12-17 and 24-29: the message is sent and printed,
\* then sys.exit(1); nothing is printed when sending raises.
Refuse(text, run_sync) ==
    IF run_sync = "sent"
    THEN [out |-> << <<"send", "system", text>>, <<"print", text>> >>, exit |-> SysExit1]
    ELSE [out |-> <<>>, exit |-> Uncaught]

\* src/appUI_final_v3.py:23: except FileNotFoundError
SettingsHandled(found) == found = "FileNotFoundError"

\* A mutant of AfterOutputCheck: the module goes on without the index.
AfterOutputCheckGoesOn(found) == "settings"

\* src/appUI_final_v3.py:11-17: where the module goes after the check of
\* the "output" directory.
AfterOutputCheck(found) == IF found = "exists" THEN "settings" ELSE "exited"

InitChat ==
    /\ app_pc = "start"
    /\ startup_env = NoStartupEnv
    /\ startup_out = <<>>
    /\ exit = NoExit
    /\ agents = {}
    /\ handlers = {}
    /\ user_session = [k \in {"search_method", "model"} |-> Unset]
    /\ chat_started = FALSE
    /\ settings_seen = NoSettings
    /\ sent = <<>>
    /\ health = Unset
    /\ msg_pc = "idle"
    /\ msg = NoAnswer
    /\ ncalls = 0
    /\ last_call = NoCall
    /\ answer = NoAnswer

\* src/appUI_final_v3.py:10-17
CheckOutputDir ==
    /\ UNCHANGED notChat
    /\ app_pc = "start"
    /\ \E found \in OutputDirStates, run_sync \in RunSyncOutcomes :
         LET refused == Refuse("GraphRAG index not found", run_sync)
         IN /\ startup_env' = [startup_env EXCEPT !.output = found]
            /\ app_pc' = AfterOutputCheck(found)
            /\ IF AfterOutputCheck(found) = "exited"
               THEN startup_out' = refused.out /\ exit' = refused.exit
               ELSE UNCHANGED <<startup_out, exit>>
    /\ UNCHANGED <<agents, handlers>>
    /\ UNCHANGED <<user_session, chat_started, settings_seen, sent, health, msg_pc,
                   msg, ncalls, last_call, answer>>

\* src/appUI_final_v3.py:19-29
LoadSettings ==
    /\ UNCHANGED notChat
    /\ app_pc = "settings"
    /\ \E found \in SettingsFileStates, run_sync \in RunSyncOutcomes :
         LET refused == Refuse("settings.yaml not found", run_sync)
         IN /\ startup_env' = [startup_env EXCEPT !.settings = found]
            /\ CASE found = "ok" ->
                      /\ app_pc' = "agents"
                      /\ UNCHANGED <<startup_out, exit>>
                 [] found # "ok" /\ SettingsHandled(found) ->
                      /\ app_pc' = "exited"
                      /\ startup_out' = refused.out
                      /\ exit' = refused.exit
                 [] OTHER ->
                      /\ app_pc' = "exited"
                      /\ exit' = Uncaught
                      /\ UNCHANGED startup_out
    /\ UNCHANGED <<agents, handlers>>
    /\ UNCHANGED <<user_session, chat_started, settings_seen, sent, health, msg_pc,
                   msg, ncalls, last_call, answer>>

\* src/appUI_final_v3.py:94-110
CreateAgents ==
    /\ UNCHANGED notChat
    /\ app_pc = "agents"
    /\ agents' = {"user_proxy", "assistant"}
    /\ app_pc' = "handlers"
    /\ UNCHANGED <<startup_env, startup_out, exit, handlers>>
    /\ UNCHANGED <<user_session, chat_started, settings_seen, sent, health, msg_pc,
                   msg, ncalls, last_call, answer>>

\* src/appUI_final_v3.py:113, 154, 164: the decorators register the three
\* handlers; the module is loaded and Chainlit serves.
RegisterHandlers ==
    /\ UNCHANGED notChat
    /\ app_pc = "handlers"
    /\ handlers' = {"on_chat_start", "on_settings_update", "on_message"}
    /\ app_pc' = "serving"
    /\ UNCHANGED <<startup_env, startup_out, exit, agents>>
    /\ UNCHANGED <<user_session, chat_started, settings_seen, sent, health, msg_pc,
                   msg, ncalls, last_call, answer>>

\* A mutant of HealthWarning: the test of the status code is lost.
HealthWarningOnExceptionOnly(h) ==
    IF h = "RequestException"
    THEN << <<"system", "LiteLLM proxy server is not running">> >>
    ELSE <<>>

\* src/appUI_final_v3.py:118-129: the messages the health check sends.  `h`
\* is the status code of the response, or the exception requests.get
\* raised.
HealthWarning(h) ==
    CASE h = "RequestException" ->
            << <<"system", "LiteLLM proxy server is not running">> >>
      [] h # "RequestException" /\ h # "200" ->
            << <<"system", "LiteLLM proxy server might not be running">> >>
      [] OTHER -> <<>>

\* src/appUI_final_v3.py:113-152
OnChatStart ==
    /\ UNCHANGED notChat
    /\ app_pc = "serving"
    /\ UNCHANGED startupVars
    /\ ~chat_started
    /\ \E h \in HealthOutcomes :
         /\ health' = h
         /\ sent' = HealthWarning(h)
                    \o << <<"ChatSettings">>, <<"assistant", "Welcome">> >>
    /\ user_session' = [user_session EXCEPT !["search_method"] = "global"]
    /\ chat_started' = TRUE
    /\ UNCHANGED <<settings_seen, msg_pc, msg, ncalls, last_call, answer>>

\* src/appUI_final_v3.py:154-162
OnSettingsUpdate ==
    /\ UNCHANGED notChat
    /\ app_pc = "serving"
    /\ UNCHANGED startupVars
    /\ UNCHANGED health
    /\ chat_started
    /\ msg_pc = "idle"
    /\ \E settings \in [search_method : SearchMethods, model : Models] :
         /\ user_session' = [user_session EXCEPT
                                !["search_method"] = settings.search_method,
                                !["model"] = settings.model]
         /\ settings_seen' = settings
         /\ sent' = << <<"assistant", "Settings updated: Search Method = ",
                         settings.search_method, ", Model = ", settings.model>> >>
    /\ UNCHANGED <<chat_started, msg_pc, msg, ncalls, last_call, answer>>

\* src/appUI_final_v3.py:164-179: on_message up to the call of
\* user_proxy.initiate_chat(assistant, message=query).  search_method is read
\* from the session into a local (line 167) that nothing below uses; the
\* assistant runs with the llm_config it was created with.
OnMessage ==
    /\ UNCHANGED notChat
    /\ app_pc = "serving"
    /\ UNCHANGED startupVars
    /\ UNCHANGED health
    /\ chat_started
    /\ msg_pc = "idle"
    /\ \E query \in Queries :
         msg' = [ query |-> query,
                  search_method |-> user_session["search_method"],
                  model |-> assistant_llm_config.config_list[1].model ]
    /\ msg_pc' = "chatting"
    /\ ncalls' = 0
    /\ last_call' = NoCall
    /\ sent' = << <<"assistant", "">>,
                  <<"update", "Searching documents and generating response...">> >>
    /\ UNCHANGED <<user_session, chat_started, settings_seen, answer>>

\* src/appUI_final_v3.py:42-70 called during initiate_chat: llm_config declares
\* search_docs(query) as the one function of the agents (lines 76-91).
SearchDocsCall ==
    /\ UNCHANGED notChat
    /\ app_pc = "serving"
    /\ UNCHANGED startupVars
    /\ UNCHANGED health
    /\ msg_pc = "chatting"
    /\ ncalls < MaxCalls
    /\ \E query \in Queries, o \in SearchOutcomes :
         last_call' = SearchDocs(query, o)
    /\ ncalls' = ncalls + 1
    /\ UNCHANGED <<user_session, chat_started, settings_seen, sent, msg_pc, msg, answer>>

\* src/appUI_final_v3.py:181-185: the assistant's last message replaces the
\* placeholder.
OnMessageDone ==
    /\ UNCHANGED notChat
    /\ app_pc = "serving"
    /\ UNCHANGED startupVars
    /\ UNCHANGED health
    /\ msg_pc = "chatting"
    /\ msg_pc' = "idle"
    /\ answer' = msg
    /\ sent' = Append(sent, <<"update", "last_message">>)
    /\ UNCHANGED <<user_session, chat_started, settings_seen, msg, ncalls, last_call>>

NextChat ==
    \/ CheckOutputDir \/ LoadSettings \/ CreateAgents \/ RegisterHandlers
    \/ OnChatStart \/ OnSettingsUpdate \/ OnMessage \/ SearchDocsCall \/ OnMessageDone

(***************************************************************************)
(* document_processors/pdf_processor.py and word_processor.py              *)
(*                                                                         *)
(* A path is a record [dir, stem, ext]; a dictionary is the sequence of    *)
(* its <<key, value>> pairs in insertion order; a Python value that may be *)
(* a string or a tuple carries its type.                                   *)
(***************************************************************************)
Dirs == {"in", "out"}
Stems == {"report", "notes"}
\* How a call can fail: opening the document, opening the output file,
\* inside extract_metadata, at a write, or while processing the body.
FailPoints == {"none", "open_doc", "open_output", "metadata", "write", "body"}
\* The lengths of a page's native text, around the OCR threshold.
TextLens == {0, OcrMinChars - 1, OcrMinChars, OcrMinChars + 1}
\* A text is held as its paragraphs: what text.split('\n\n') gives once the
\* runs of newlines are collapsed.  The paragraphs "" and " " are blank, and
\* " p2 " is "p2" with white space around it.
NonBlankTexts == { <<"p1">>, <<" p2 ", " ", "p1">> }
\* A page's native text: its length, whether it is all whitespace, and its
\* paragraphs.
PageTexts ==
    {t \in [len : TextLens, blank : BOOLEAN, paras : NonBlankTexts \cup {<<"">>, <<" ">>}] :
        /\ t.len = 0 <=> t.paras = <<"">>
        /\ t.blank <=> t.paras \in {<<"">>, <<" ">>}}
Titles == {"", "Title"}

PdfDocs == [title : Titles, author : {"", "Ann"}, pages : SeqsUpTo(PageTexts, MaxPages)]
WordDocs == [title : Titles, author : {"", "Ann"}, words : 0..MaxWords]

\* The exceptions the libraries and the file system raise there, all of them
\* subclasses of Exception.
ConvExcClasses == {"OSError", "ValueError"}
ExceptionSubclasses == {"OSError", "ValueError", "TypeError", "KeyError"}
Failures ==
    [at : {"none"}, exc : {"none"}]
    \cup [at : FailPoints \ {"none"}, exc : ConvExcClasses]

ConvInputs ==
    [proc : {"pdf"}, file : [dir : {"in"}, stem : Stems, ext : {".pdf"}],
     output_dir : Dirs, doc : PdfDocs, ocr_enabled : BOOLEAN, fail : Failures]
    \cup
    [proc : {"word"}, file : [dir : {"in"}, stem : Stems, ext : {".docx"}],
     output_dir : Dirs, doc : WordDocs, ocr_enabled : {FALSE}, fail : Failures]

DictKeys(d) == {d[i][1] : i \in 1..Len(d)}
DictGet(d, k, default) ==
    IF k \in DictKeys(d)
    THEN d[CHOOSE i \in 1..Len(d) : d[i][1] = k][2]
    ELSE default
\* The pairs of a dictionary whose value is truthy (not the empty string).
Truthy(pairs) == SelectSeq(pairs, LAMBDA kv : kv[2] # "")

PyTuple(items) == [type |-> "tuple", items |-> items]

\* re.findall(r'\b\w+\b', x): the words of a string; a TypeError for
\* anything that is not a string.
ReFindallWords(x) ==
    IF x.type = "str" THEN [ok |-> TRUE, count |-> x.text.words]
    ELSE [ok |-> FALSE, exc |-> "TypeError"]

\* src/document_processors/pdf_processor.py:40
NeedsOcrExtract(ocr_enabled, text) ==
    ocr_enabled /\ (text.blank \/ text.len < OcrMinChars)

\* A mutant of NeedsOcrConvert: the ocr_enabled test is lost.
NeedsOcrConvertAlways(ocr_enabled, text) ==
    text.blank \/ text.len < OcrMinChars

\* src/document_processors/pdf_processor.py:130-131
NeedsOcrConvert(ocr_enabled, text) ==
    IF text.blank \/ text.len < OcrMinChars THEN ocr_enabled ELSE FALSE

\* src/document_processors/pdf_processor.py:30-49: the pages extract_text
\* sends to OCR (it is called once per extract_metadata).
PdfExtractTextOcr(in) ==
    [i \in 1..Len(in.doc.pages) |-> NeedsOcrExtract(in.ocr_enabled, in.doc.pages[i])]

\* src/document_processors/pdf_processor.py:67-100
PdfExtractMetadata(in) ==
    IF in.fail.at = "metadata"
    THEN << <<"error", "Could not extract metadata">> >>
    ELSE Truthy(<< <<"title", in.doc.title>>, <<"author", in.doc.author>> >>)
         \o << <<"page_count", ToString(Len(in.doc.pages))>>,
               <<"file_size", "size">>,
               <<"word_count", "words">> >>

\* src/document_processors/word_processor.py:26-56: both return statements
\* give a pair (text, images).
WordExtractText(in) == PyTuple(<<[words |-> in.doc.words], <<>>>>)

\* src/document_processors/word_processor.py:58-87
WordExtractMetadata(in) ==
    LET found == ReFindallWords(WordExtractText(in))
    IN IF in.fail.at = "metadata" \/ ~found.ok
       THEN << <<"error", "Could not extract metadata">> >>
       ELSE Truthy(<< <<"title", in.doc.title>>, <<"author", in.doc.author>> >>)
            \o << <<"word_count", ToString(found.count)>>, <<"file_size", "size">> >>

ExtractMetadata(in) ==
    IF in.proc = "pdf" THEN PdfExtractMetadata(in) ELSE WordExtractMetadata(in)

\* pdf_processor.py:104-106, word_processor.py:91-93
OutputPath(in) == <<in.output_dir, "/", in.file.stem, ".md">>

\* pdf_processor.py:114-118, word_processor.py:102-106
FrontMatter(metadata) ==
    << <<"---">> >>
    \o [i \in 1..Len(Truthy(metadata)) |->
           <<"fm", Truthy(metadata)[i][1], Truthy(metadata)[i][2]>>]
    \o << <<"---">>, <<"">> >>

\* paragraph.strip()
Strip(paragraph) ==
    CASE paragraph = " p2 " -> "p2"
      [] paragraph = " " -> ""
      [] OTHER -> paragraph

\* src/document_processors/pdf_processor.py:126: page_num counts from 0.
PageHeading(page_num) == <<"## Page ", page_num + 1>>

\* A mutant of WriteParagraphs: the test of line 139 is lost, the blank
\* paragraphs are written too.
WriteParagraphsBlankToo(paragraphs) ==
    [i \in 1..Len(paragraphs) |-> <<"para", Strip(paragraphs[i])>>]

\* src/document_processors/pdf_processor.py:138-140
WriteParagraphs(paragraphs) ==
    LET kept == SelectSeq(paragraphs, LAMBDA p : Strip(p) # "")
    IN [i \in 1..Len(kept) |-> <<"para", Strip(kept[i])>>]

\* src/document_processors/pdf_processor.py:125-140: the first n pages.  The
\* text OCR gives for page n is one paragraph, written as a line of its own
\* kind.
RECURSIVE PdfPages(_, _)
PdfPages(in, n) ==
    IF n = 0 THEN <<>>
    ELSE LET text == in.doc.pages[n]
             ocr == NeedsOcrConvert(in.ocr_enabled, text)
         IN PdfPages(in, n - 1)
            \o << PageHeading(n - 1) >>
            \o (IF ocr THEN << <<"text", "ocr", n>> >>
                ELSE WriteParagraphs(text.paras))

\* pdf_processor.py:120-162 / word_processor.py:108-151: what follows the
\* front matter.
Body(in, metadata) ==
    IF in.proc = "pdf"
    THEN << <<"# ", DictGet(metadata, "title", in.file.stem)>> >>
         \o PdfPages(in, Len(in.doc.pages))
    ELSE << <<"paragraphs and tables">> >>

\* A mutant of ConvCatches: the handler names OSError only.
ConvCatchesOSErrorOnly(exc) == exc = "OSError"

\* pdf_processor.py:165, word_processor.py:154: except Exception
ConvCatches(exc) == exc \in ExceptionSubclasses

\* pdf_processor.py:165-167, word_processor.py:154-156
ConvError(in) ==
    IF ConvCatches(in.fail.exc)
    THEN [kind |-> "return",
          value |-> <<"Error: Could not convert document to Markdown", " (", in.fail.exc, ")">>]
    ELSE [kind |-> "raise", value |-> <<in.fail.exc>>]

\* pdf_processor.py:102-167 and word_processor.py:89-156
ConvertToMarkdown(in) ==
    LET opened == in.fail.at \notin {"open_doc", "open_output"}
        metadata == IF opened THEN ExtractMetadata(in) ELSE <<>>
        completes == in.fail.at \in {"none", "metadata"}
    IN [ result |-> IF completes
                    THEN [kind |-> "return", value |-> OutputPath(in)]
                    ELSE ConvError(in),
         metadata |-> metadata,
         md |-> IF ~opened \/ in.fail.at = "write" THEN <<>>
                ELSE IF in.fail.at = "body" THEN FrontMatter(metadata)
                ELSE FrontMatter(metadata) \o Body(in, metadata),
         ocr_extract |-> IF opened /\ in.proc = "pdf" /\ in.fail.at # "metadata"
                         THEN PdfExtractTextOcr(in) ELSE <<>>,
         ocr_convert |-> IF completes /\ in.proc = "pdf"
                         THEN [i \in 1..Len(in.doc.pages) |->
                                  NeedsOcrConvert(in.ocr_enabled, in.doc.pages[i])]
                         ELSE <<>>,
         logged |-> (IF opened /\ "error" \in DictKeys(metadata)
                     THEN <<"Error extracting metadata">> ELSE <<>>)
                    \o (IF completes THEN <<>> ELSE <<"Error converting to Markdown">>) ]

NoConvIn ==
    [proc |-> Unset, file |-> [dir |-> Unset, stem |-> Unset, ext |-> Unset],
     output_dir |-> Unset, doc |-> [title |-> "", author |-> "", pages |-> <<>>],
     ocr_enabled |-> FALSE, fail |-> [at |-> "none", exc |-> "none"]]
NoConvOut ==
    [result |-> [kind |-> Unset, value |-> <<>>], metadata |-> <<>>, md |-> <<>>,
     ocr_extract |-> <<>>, ocr_convert |-> <<>>, logged |-> <<>>]

InitConv ==
    /\ conv_in = NoConvIn
    /\ conv_out = NoConvOut

\* One call of convert_to_markdown on a processor that has made none.
Convert ==
    /\ UNCHANGED notConv
    /\ conv_out = NoConvOut
    /\ \E in \in ConvInputs :
        /\ conv_in' = in
        /\ conv_out' = ConvertToMarkdown(in)

NextConv == Convert

(***************************************************************************)
(* document_processors/universal_processor.py: the configuration           *)
(*                                                                         *)
(* A Python value carries its type: a dict is a function from its keys, a  *)
(* list the sequence of its items, a string the sequence of its words.     *)
(* An operation that can raise gives [exc, v]: the exception class, or     *)
(* "none" and the value.                                                   *)
(***************************************************************************)
PDict(f) == [t |-> "dict", v |-> f]
PList(items) == [t |-> "list", v |-> items]
PStr(words) == [t |-> "str", v |-> words]
PInt(n) == [t |-> "int", v |-> n]
PBool(b) == [t |-> "bool", v |-> b]
PNone == [t |-> "none", v |-> <<>>]

Ok(v) == [exc |-> "none", v |-> v]
Raise(exc) == [exc |-> exc, v |-> PNone]

\* key in c
PyContains(c, key) ==
    CASE c.t = "dict" -> Ok(key \in DOMAIN c.v)
      [] c.t \in {"list", "str"} -> Ok(\E i \in 1..Len(c.v) : c.v[i] = key)
      [] OTHER -> Raise("TypeError")

\* c[key] = val
PySetItem(c, key, val) ==
    IF c.t = "dict"
    THEN Ok(PDict([k \in DOMAIN c.v \cup {key} |-> IF k = key THEN val ELSE c.v[k]]))
    ELSE Raise("TypeError")

\* c[key], key a string
PyGetItem(c, key) ==
    IF c.t = "dict"
    THEN IF key \in DOMAIN c.v THEN Ok(c.v[key]) ELSE Raise("KeyError")
    ELSE Raise("TypeError")

\* bool(x)
PyTruth(x) ==
    CASE x.t = "bool" -> x.v
      [] x.t = "int" -> x.v # 0
      [] x.t = "none" -> FALSE
      [] x.t \in {"list", "str"} -> Len(x.v) > 0
      [] OTHER -> DOMAIN x.v # {}

\* src/document_processors/universal_processor.py:41-65
default_config ==
    PDict([ log_level |-> PStr(<<"INFO">>),
            max_workers |-> PInt(4),
            processors |-> PDict([
                word |-> PDict([ enabled |-> PBool(TRUE),
                                 chunk_size |-> PInt(300),
                                 chunk_overlap |-> PInt(100) ]),
                pdf |-> PDict([ enabled |-> PBool(TRUE),
                                ocr_enabled |-> PBool(TRUE),
                                ocr_language |-> PStr(<<"eng">>),
                                chunk_size |-> PInt(300),
                                chunk_overlap |-> PInt(100),
                                extract_images |-> PBool(FALSE) ]) ]),
            output_dir |-> PStr(<<"input/markdown">>),
            backup_dir |-> PStr(<<"input/originals">>),
            file_extensions |-> PDict([ word |-> PList(<<".docx", ".doc">>),
                                        pdf |-> PList(<<".pdf">>) ]) ])

\* default_config.items(), in the order of the literal.
DefaultKeys ==
    <<"log_level", "max_workers", "processors", "output_dir", "backup_dir",
      "file_extensions">>

\* src/document_processors/universal_processor.py:78-80: the sub-keys of one
\* default entry that the loaded entry lacks are copied; the values found
\* under a sub-key are left as they are.
MergeSub(sub, defsub) ==
    PDict([k \in DOMAIN sub.v \cup DOMAIN defsub.v |->
              IF k \in DOMAIN sub.v THEN sub.v[k] ELSE defsub.v[k]])

\* src/document_processors/universal_processor.py:74-80, for the default
\* keys `keys` still to visit.
RECURSIVE MergeKeys(_, _)
MergeKeys(config, keys) ==
    IF keys = <<>> THEN Ok(config)
    ELSE LET key == Head(keys)
             value == default_config.v[key]
             has == PyContains(config, key)
         IN IF has.exc # "none" THEN Raise(has.exc)
            ELSE IF ~has.v
            THEN LET set == PySetItem(config, key, value)
                 IN IF set.exc # "none" THEN set ELSE MergeKeys(set.v, Tail(keys))
            ELSE IF value.t = "dict"
            THEN LET got == PyGetItem(config, key)
                 IN IF got.exc # "none" THEN got
                    ELSE IF got.v.t = "dict"
                    THEN MergeKeys(PySetItem(config, key, MergeSub(got.v, value)).v,
                                   Tail(keys))
                    ELSE MergeKeys(config, Tail(keys))
            ELSE MergeKeys(config, Tail(keys))

\* A mutant of LoadCatches: the handler names the errors of opening and
\* parsing only.
LoadCatchesFileErrors(exc) == exc \in {"OSError", "YAMLError"}

\* src/document_processors/universal_processor.py:82: except Exception
LoadCatches(exc) == exc \in {"OSError", "YAMLError", "TypeError", "KeyError"}

\* src/document_processors/universal_processor.py:39-84.  `in.path` says what
\* the path leads to; `in.yaml` is what yaml.safe_load gives for the file.
LoadConfig(in) ==
    IF in.path \in {"none", "missing"} THEN Ok(default_config)
    ELSE LET tried == CASE in.path = "unreadable" -> Raise("OSError")
                        [] in.path = "unparsable" -> Raise("YAMLError")
                        [] OTHER -> MergeKeys(in.yaml, DefaultKeys)
         IN IF tried.exc = "none" THEN tried
            ELSE IF LoadCatches(tried.exc) THEN Ok(default_config)
            ELSE tried

\* config[k1][k2][k3]
GetPath3(config, k1, k2, k3) ==
    LET a == PyGetItem(config, k1)
        b == IF a.exc = "none" THEN PyGetItem(a.v, k2) ELSE a
    IN IF b.exc = "none" THEN PyGetItem(b.v, k3) ELSE b

\* src/document_processors/universal_processor.py:86-98
InitializeProcessors(config) ==
    LET word == GetPath3(config, "processors", "word", "enabled")
        pdf == GetPath3(config, "processors", "pdf", "enabled")
    IN IF word.exc # "none" THEN word
       ELSE IF pdf.exc # "none" THEN pdf
       ELSE Ok((IF PyTruth(word.v) THEN {"word"} ELSE {})
               \cup (IF PyTruth(pdf.v) THEN {"pdf"} ELSE {}))

\* src/document_processors/universal_processor.py:23-37
Construct(in) ==
    LET config == LoadConfig(in)
        processors == IF config.exc = "none" THEN InitializeProcessors(config.v)
                      ELSE Raise(config.exc)
    IN [ exc |-> IF config.exc # "none" THEN config.exc ELSE processors.exc,
         loaded |-> config,
         config |-> config.v,
         processors |-> IF processors.exc = "none" THEN processors.v ELSE {} ]

\* The values found under "processors" and "file_extensions" in a file.
YamlProcessors ==
    { PDict([word |-> PDict([enabled |-> PBool(FALSE)])]),
      PDict([word |-> PDict([chunk_size |-> PInt(500)])]),
      PDict([word |-> PDict([enabled |-> PBool(TRUE)]),
             pdf |-> PDict([enabled |-> PBool(FALSE), ocr_enabled |-> PBool(FALSE)])]),
      PDict([pdf |-> PDict([enabled |-> PBool(TRUE)])]),
      PDict(<<>>) }
YamlExtensions ==
    { PDict([word |-> PList(<<".docx">>)]),
      PDict([word |-> PList(<<".doc">>), pdf |-> PList(<<".pdf">>)]),
      PDict(<<>>) }
YamlEntries ==
    [ log_level : {PStr(<<"DEBUG">>)},
      max_workers : {PInt(2)},
      processors : YamlProcessors,
      output_dir : {PStr(<<"md">>)},
      backup_dir : {PStr(<<"">>)},
      file_extensions : YamlExtensions ]
\* The mappings a configuration file can hold: any of the keys, any of the
\* values above.
YamlMappings ==
    UNION { { PDict([k \in ks |-> e[k]]) : e \in YamlEntries } :
            ks \in SUBSET {DefaultKeys[i] : i \in 1..Len(DefaultKeys)} }
\* What else a YAML file can hold: nothing, a scalar, a list.
YamlOthers ==
    { PNone, PInt(7), PStr(<<"processors">>), PStr(DefaultKeys),
      PList(<<>>), PList(<<"processors">>), PList(DefaultKeys) }

UdpInputs ==
    [path : {"none", "missing", "unreadable", "unparsable"}, yaml : {PNone}]
    \cup [path : {"ok"}, yaml : YamlMappings \cup YamlOthers]

NoUdpIn == [path |-> Unset, yaml |-> PNone]
NoUdp == [exc |-> Unset, loaded |-> Raise(Unset), config |-> PNone, processors |-> {}]

InitUdp ==
    /\ udp_in = NoUdpIn
    /\ udp = NoUdp

\* UniversalDocumentProcessor(config_path), once.
NewProcessor ==
    /\ UNCHANGED notUdp
    /\ udp = NoUdp
    /\ \E in \in UdpInputs :
         /\ udp_in' = in
         /\ udp' = Construct(in)

NextUdp == NewProcessor

(***************************************************************************)
(* document_processors/universal_processor.py: process_directory           *)
(***************************************************************************)
Exts == {".pdf", ".PDF", ".docx", ".txt"}

\* ext.lower()
Lower(ext) == IF ext = ".PDF" THEN ".pdf" ELSE ext

\* src/document_processors/universal_processor.py:100-109: the processor type
\* for a file with extension `ext`, "None" when there is none.
GetProcessorForFile(config, processors, ext) ==
    LET extensions == config.v["file_extensions"].v
        fits(pt) == /\ pt \in DOMAIN extensions
                    /\ \E i \in 1..Len(extensions[pt].v) : extensions[pt].v[i] = Lower(ext)
                    /\ pt \in processors
    IN IF fits("word") THEN "word" ELSE IF fits("pdf") THEN "pdf" ELSE "None"

\* src/document_processors/universal_processor.py:169-174, from file i on.
RECURSIVE FindCompatible(_, _)
FindCompatible(exts, i) ==
    IF i > Len(exts) THEN <<>>
    ELSE (IF GetProcessorForFile(default_config, {"word", "pdf"}, exts[i]) # "None"
          THEN <<i>> ELSE <<>>)
         \o FindCompatible(exts, i + 1)

Finished == {"ok", "failed", "raised"}
Submitted == {files_to_process[i] : i \in 1..Len(files_to_process)}
Running == {f \in Submitted : future[f] = "running"}

\* A mutant of CollectResult: the except branch logs and appends nothing.
CollectResultLogsOnly(rs, file, how) ==
    IF how = "raised" THEN rs
    ELSE Append(rs, [file |-> file, success |-> how = "ok", from |-> "result"])

\* src/document_processors/universal_processor.py:182-192: what the loop
\* appends for a future that ended as `how`.
CollectResult(rs, file, how) ==
    IF how = "raised"
    THEN Append(rs, [file |-> file, success |-> FALSE, from |-> "except"])
    ELSE Append(rs, [file |-> file, success |-> how = "ok", from |-> "result"])

InitPd ==
    /\ pd_pc = "idle"
    /\ listing = <<>>
    /\ max_workers = 0
    /\ files_to_process = <<>>
    /\ future = <<>>
    /\ yielded = {}
    /\ results = <<>>

\* src/document_processors/universal_processor.py:163-180: the directory is
\* walked and every compatible file is submitted to the pool.
ProcessDirectory ==
    /\ UNCHANGED notPd
    /\ pd_pc = "idle"
    /\ \E exts \in SeqsUpTo(Exts, MaxFiles), w \in 1..MaxWorkers :
         /\ listing' = exts
         /\ max_workers' = w
         /\ files_to_process' = FindCompatible(exts, 1)
         /\ future' = [i \in 1..Len(exts) |-> "pending"]
    /\ pd_pc' = "collecting"
    /\ yielded' = {}
    /\ results' = <<>>

\* A worker thread of the pool takes the oldest pending task; the pool has
\* at most max_workers threads.
WorkerStart ==
    /\ UNCHANGED notPd
    /\ pd_pc = "collecting"
    /\ Cardinality(Running) < max_workers
    /\ \E i \in 1..Len(files_to_process) :
         /\ future[files_to_process[i]] = "pending"
         /\ \A j \in 1..(i - 1) : future[files_to_process[j]] # "pending"
         /\ future' = [future EXCEPT ![files_to_process[i]] = "running"]
    /\ UNCHANGED <<pd_pc, listing, max_workers, files_to_process, yielded, results>>

\* src/document_processors/universal_processor.py:111-161 in a worker thread:
\* process_file returns a record (success or not) or raises.
WorkerFinish ==
    /\ UNCHANGED notPd
    /\ \E f \in Running, how \in Finished :
         future' = [future EXCEPT ![f] = how]
    /\ UNCHANGED <<pd_pc, listing, max_workers, files_to_process, yielded, results>>

\* src/document_processors/universal_processor.py:181-192: as_completed
\* yields a finished future it has not yielded yet.
AsCompleted ==
    /\ UNCHANGED notPd
    /\ pd_pc = "collecting"
    /\ \E f \in Submitted \ yielded :
         /\ future[f] \in Finished
         /\ yielded' = yielded \cup {f}
         /\ results' = CollectResult(results, f, future[f])
    /\ UNCHANGED <<pd_pc, listing, max_workers, files_to_process, future>>

\* src/document_processors/universal_processor.py:179 and 194: as_completed is
\* exhausted, the with block shuts the pool down, results is returned.
ProcessDirectoryReturn ==
    /\ UNCHANGED notPd
    /\ pd_pc = "collecting"
    /\ yielded = Submitted
    /\ pd_pc' = "returned"
    /\ UNCHANGED <<listing, max_workers, files_to_process, future, yielded, results>>

NextPd ==
    ProcessDirectory \/ WorkerStart \/ WorkerFinish \/ AsCompleted \/ ProcessDirectoryReturn

(***************************************************************************)
(* document_processors/universal_processor.py: process_file                *)
(***************************************************************************)
\* The values of output_dir and backup_dir in the configuration; an empty
\* backup_dir means no backup.
OutputDirs == {"out", "Errors"}
BackupDirs == {"", "originals"}
\* What os.makedirs(backup_dir) and shutil.copy2 can do.
BackupOutcomes == {"ok", "makedirs OSError", "copy2 PermissionError", "copy2 SameFileError"}

PfInputs ==
    [ file : [dir : {"in"}, stem : {"report"}, ext : Exts],
      processors : SUBSET {"word", "pdf"},
      output_dir : OutputDirs,
      backup_dir : BackupDirs,
      makedirs : {"ok", "OSError"},
      conv_fail : Failures,
      backup : BackupOutcomes ]

\* self.config of the processor the call is made on.
PfConfig(in) ==
    PDict([k \in DOMAIN default_config.v |->
              CASE k = "output_dir" -> PStr(<<in.output_dir>>)
                [] k = "backup_dir" ->
                     IF in.backup_dir = "" THEN PStr(<<>>) ELSE PStr(<<in.backup_dir>>)
                [] OTHER -> default_config.v[k]])

\* The call processor.convert_to_markdown(file_path, output_dir) of line 137.
PfConversion(in, processor_type) ==
    ConvertToMarkdown(
        [ proc |-> processor_type, file |-> in.file, output_dir |-> in.output_dir,
          doc |-> IF processor_type = "pdf"
                  THEN [title |-> "Title", author |-> "",
                        pages |-> << [len |-> OcrMinChars, blank |-> FALSE, paras |-> <<"p1">>] >>]
                  ELSE [title |-> "Title", author |-> "", words |-> 1],
          ocr_enabled |-> FALSE, fail |-> in.conv_fail ])

\* output_path.startswith("Error"), for the strings of the model.
StartsWithError(tokens) ==
    /\ tokens # <<>>
    /\ Head(tokens) \in {"Error: Could not convert document to Markdown", "Errors"}

\* src/document_processors/universal_processor.py:111-161
ProcessFile(in) ==
    LET config == PfConfig(in)
        result == [ file |-> in.file, success |-> FALSE, output_path |-> PNone,
                    processor_type |-> PNone, error |-> PNone, duration |-> PNone ]
        found == GetProcessorForFile(config, in.processors, in.file.ext)
        typed == [result EXCEPT !.processor_type =
                                   IF found = "None" THEN PNone ELSE PStr(<<found>>)]
        conv == PfConversion(in, found).result
        done == [typed EXCEPT !.success = TRUE,
                              !.output_path = PStr(conv.value),
                              !.duration = PStr(<<"seconds">>)]
    IN  IF in.makedirs # "ok" THEN [result EXCEPT !.error = PStr(<<in.makedirs>>)]
        ELSE IF found = "None"
        THEN [typed EXCEPT !.error =
                 PStr(<<"No suitable processor found for ", in.file.stem, in.file.ext>>)]
        ELSE IF conv.kind = "raise" THEN [typed EXCEPT !.error = PStr(conv.value)]
        ELSE IF StartsWithError(conv.value) THEN [typed EXCEPT !.error = PStr(conv.value)]
        ELSE IF PyTruth(config.v["backup_dir"]) /\ in.backup # "ok"
        THEN [done EXCEPT !.error = PStr(<<in.backup>>)]
        ELSE done

NoPfIn ==
    [ file |-> [dir |-> Unset, stem |-> Unset, ext |-> Unset], processors |-> {},
      output_dir |-> Unset, backup_dir |-> Unset, makedirs |-> Unset,
      conv_fail |-> [at |-> "none", exc |-> "none"], backup |-> Unset ]
NoPfOut ==
    [ file |-> [dir |-> Unset, stem |-> Unset, ext |-> Unset], success |-> FALSE,
      output_path |-> PNone, processor_type |-> PNone, error |-> PNone,
      duration |-> PNone ]

InitPf ==
    /\ pf_in = NoPfIn
    /\ pf_out = NoPfOut

\* One call of process_file.
ProcessFileCall ==
    /\ UNCHANGED notPf
    /\ pf_in = NoPfIn
    /\ \E in \in PfInputs :
         /\ pf_in' = in
         /\ pf_out' = ProcessFile(in)

NextPf == ProcessFileCall

(***************************************************************************)
(* init_graphrag.py                                                        *)
(***************************************************************************)
\* src/init_graphrag.py:8-12, in the order of the calls of os.makedirs.
GraphragDirs == <<"input", "input/markdown", "cache", "output", "coding">>
\* src/init_graphrag.py:37-85: the names of sample_docs, in order.
SampleDocs == <<"graphrag_intro.md", "autogen_info.md", "integration_guide.md">>

First(seq, n) == {seq[i] : i \in 1..n}
Call(fn, result) == [fn |-> fn, result |-> result]

\* A mutant of MainGoesOn: main ignores what the function returned.
MainGoesOnWhatever(returned) == TRUE

\* src/init_graphrag.py:97 and 99: if not f(): return
MainGoesOn(returned) == returned = "True"

InitIg ==
    /\ ig_pc = "idle"
    /\ ig_existed = {}
    /\ ig_dirs = {}
    /\ ig_files = {}
    /\ ig_trace = <<>>
    /\ ig_out = <<>>

\* src/init_graphrag.py:94-95: main is called in a directory where some of
\* the directories may exist already.
InitMain ==
    /\ UNCHANGED notIg
    /\ ig_pc = "idle"
    /\ \E found \in SUBSET First(GraphragDirs, Len(GraphragDirs)) :
         /\ ("input/markdown" \in found => "input" \in found)
         /\ ig_existed' = found
         /\ ig_dirs' = found
    /\ ig_out' = <<"Initializing GraphRAG environment...">>
    /\ ig_pc' = "create_directories"
    /\ UNCHANGED <<ig_files, ig_trace>>

\* src/init_graphrag.py:6-13 called at line 96.  `failing` is the call of
\* os.makedirs that raises, 0 when none does.
CreateDirectories ==
    /\ UNCHANGED notIg
    /\ ig_pc = "create_directories"
    /\ \E failing \in 0..Len(GraphragDirs) :
         IF failing = 0
         THEN /\ ig_dirs' = ig_dirs \cup First(GraphragDirs, Len(GraphragDirs))
              /\ ig_out' = Append(ig_out, "Created directories")
              /\ ig_trace' = Append(ig_trace, Call("create_directories", "None"))
              /\ ig_pc' = "copy_settings"
         ELSE /\ ig_dirs' = ig_dirs \cup First(GraphragDirs, failing - 1)
              /\ ig_trace' = Append(ig_trace, Call("create_directories", "raised"))
              /\ ig_pc' = "raised"
              /\ UNCHANGED ig_out
    /\ UNCHANGED <<ig_existed, ig_files>>

\* src/init_graphrag.py:25-33 called at lines 97-98.
CopySettings ==
    /\ UNCHANGED notIg
    /\ ig_pc = "copy_settings"
    /\ \E copy \in {"ok", "FileNotFoundError", "PermissionError"} :
         CASE copy = "ok" ->
                /\ ig_files' = ig_files \cup {"settings.yaml"}
                /\ ig_out' = Append(ig_out, "Copied settings.yaml to root")
                /\ ig_trace' = Append(ig_trace, Call("copy_settings", "True"))
                /\ ig_pc' = IF MainGoesOn("True") THEN "init_graphrag" ELSE "returned"
           [] copy = "FileNotFoundError" ->
                /\ ig_out' = Append(ig_out, "settings.yaml not found in utils directory")
                /\ ig_trace' = Append(ig_trace, Call("copy_settings", "False"))
                /\ ig_pc' = IF MainGoesOn("False") THEN "init_graphrag" ELSE "returned"
                /\ UNCHANGED ig_files
           [] OTHER ->
                /\ ig_trace' = Append(ig_trace, Call("copy_settings", "raised"))
                /\ ig_pc' = "raised"
                /\ UNCHANGED <<ig_files, ig_out>>
    /\ UNCHANGED <<ig_existed, ig_dirs>>

\* src/init_graphrag.py:15-23 called at lines 99-100.
InitGraphrag ==
    /\ UNCHANGED notIg
    /\ ig_pc = "init_graphrag"
    /\ \E run \in {"ok", "CalledProcessError", "OSError"} :
         CASE run = "ok" ->
                /\ ig_files' = ig_files \cup {"graphrag --init"}
                /\ ig_out' = Append(ig_out, "Initialized GraphRAG")
                /\ ig_trace' = Append(ig_trace, Call("init_graphrag", "True"))
                /\ ig_pc' = IF MainGoesOn("True") THEN "create_sample_docs" ELSE "returned"
           [] run = "CalledProcessError" ->
                /\ ig_out' = Append(ig_out, "Failed to initialize GraphRAG")
                /\ ig_trace' = Append(ig_trace, Call("init_graphrag", "False"))
                /\ ig_pc' = IF MainGoesOn("False") THEN "create_sample_docs" ELSE "returned"
                /\ UNCHANGED ig_files
           [] OTHER ->
                /\ ig_trace' = Append(ig_trace, Call("init_graphrag", "raised"))
                /\ ig_pc' = "raised"
                /\ UNCHANGED <<ig_files, ig_out>>
    /\ UNCHANGED <<ig_existed, ig_dirs>>

\* src/init_graphrag.py:35-92 called at line 101.  `failing` is the document
\* whose open or write raises, 0 when none does.
CreateSampleDocs ==
    /\ UNCHANGED notIg
    /\ ig_pc = "create_sample_docs"
    /\ \E failing \in 0..Len(SampleDocs) :
         IF failing = 0
         THEN /\ ig_files' = ig_files \cup First(SampleDocs, Len(SampleDocs))
              /\ ig_out' = Append(ig_out, "Created sample documents in input/markdown")
              /\ ig_trace' = Append(ig_trace, Call("create_sample_docs", "None"))
              /\ ig_pc' = "complete"
         ELSE /\ ig_files' = ig_files \cup First(SampleDocs, failing - 1)
              /\ ig_trace' = Append(ig_trace, Call("create_sample_docs", "raised"))
              /\ ig_pc' = "raised"
              /\ UNCHANGED ig_out
    /\ UNCHANGED <<ig_existed, ig_dirs>>

\* src/init_graphrag.py:102-105
InitMainComplete ==
    /\ UNCHANGED notIg
    /\ ig_pc = "complete"
    /\ ig_out' = Append(ig_out, "Environment setup complete! Next steps:")
    /\ ig_pc' = "returned"
    /\ UNCHANGED <<ig_existed, ig_dirs, ig_files, ig_trace>>

NextIg ==
    \/ InitMain \/ CreateDirectories \/ CopySettings \/ InitGraphrag
    \/ CreateSampleDocs \/ InitMainComplete

(***************************************************************************)
(* utils/check_deps.py                                                     *)
(*                                                                         *)
(* A printed line is a tuple: <<"ok", kind, name>> for a line that starts  *)
(* with the check mark, <<"missing", kind, name>> for one that starts with *)
(* the cross, <<"info", text>> for the others.                             *)
(***************************************************************************)
\* src/utils/check_deps.py:65
modules == <<"graphrag", "autogen", "chainlit", "litellm", "yaml", "torch">>
\* src/utils/check_deps.py:69
commands == <<"ollama">>
\* src/utils/check_deps.py:28
required_models == <<"llama3", "mistral", "nomic-embed-text">>
\* The names `ollama list` can print.
ListedModels == {"llama3", "llama3.1", "mistral", "nomic-embed-text"}

\* a in b, for the names above
IsSubstring(a, b) == a = b \/ (a = "llama3" /\ b = "llama3.1")

\* src/utils/check_deps.py:6-14
check_module(module_name, env) ==
    IF module_name \in env.modules
    THEN [out |-> << <<"ok", "module", module_name>> >>, result |-> TRUE]
    ELSE [out |-> << <<"missing", "module", module_name>> >>, result |-> FALSE]

\* src/utils/check_deps.py:16-24
check_command(command, env) ==
    IF env.ollama
    THEN [out |-> << <<"ok", "command", command>> >>, result |-> TRUE]
    ELSE [out |-> << <<"missing", "command", command>> >>, result |-> FALSE]

\* all(check(x) for x in names): the generator is consumed up to the first
\* check that returns False.
RECURSIVE AllOf(_, _, _)
AllOf(check, names, env) ==
    IF names = <<>> THEN [out |-> <<>>, result |-> TRUE]
    ELSE LET first == IF check = "check_module" THEN check_module(Head(names), env)
                      ELSE check_command(Head(names), env)
         IN IF ~first.result THEN first
            ELSE LET rest == AllOf(check, Tail(names), env)
                 IN [out |-> first.out \o rest.out, result |-> rest.result]

\* src/utils/check_deps.py:26-39: the lines printed; nothing is returned.
check_ollama_models(env) ==
    IF ~env.ollama
    THEN << <<"missing", "command", "ollama">> >>
    ELSE [i \in 1..Len(required_models) |->
             IF \E listed \in env.listed : IsSubstring(required_models[i], listed)
             THEN <<"ok", "model", required_models[i]>>
             ELSE <<"missing", "model", required_models[i]>>]

\* src/utils/check_deps.py:41-59
check_graphrag_modifications(env, files_exist) ==
    IF "graphrag" \notin env.modules THEN << <<"missing", "package", "graphrag">> >>
    ELSE IF files_exist THEN << <<"info", "GraphRAG package found">> >>
    ELSE << <<"missing", "files", "graphrag">> >>

\* src/utils/check_deps.py:82-91
OverallStatus(all_modules_installed, all_commands_available) ==
    IF all_modules_installed /\ all_commands_available
    THEN << <<"ok", "status", "All required dependencies are installed">> >>
    ELSE << <<"missing", "status", "Some dependencies are missing">> >>

NoCdEnv == [modules |-> {}, ollama |-> FALSE, listed |-> {}]
CdEnvs ==
    {e \in [modules : SUBSET First(modules, Len(modules)), ollama : BOOLEAN,
             listed : SUBSET ListedModels] : ~e.ollama => e.listed = {}}

InitCd ==
    /\ cd_pc = "idle"
    /\ cd_env = NoCdEnv
    /\ cd_modules = FALSE
    /\ cd_commands = FALSE
    /\ cd_out = <<>>

\* src/utils/check_deps.py:61-66: main is called on some machine and checks
\* the modules.
CheckModules ==
    /\ UNCHANGED notCd
    /\ cd_pc = "idle"
    /\ \E env \in CdEnvs :
         /\ cd_env' = env
         /\ cd_out' = AllOf("check_module", modules, env).out
         /\ cd_modules' = AllOf("check_module", modules, env).result
    /\ cd_pc' = "commands"
    /\ UNCHANGED cd_commands

\* src/utils/check_deps.py:68-70
CheckCommands ==
    /\ UNCHANGED notCd
    /\ cd_pc = "commands"
    /\ cd_out' = cd_out \o AllOf("check_command", commands, cd_env).out
    /\ cd_commands' = AllOf("check_command", commands, cd_env).result
    /\ cd_pc' = "models"
    /\ UNCHANGED <<cd_env, cd_modules>>

\* src/utils/check_deps.py:72-74
CheckOllamaModels ==
    /\ UNCHANGED notCd
    /\ cd_pc = "models"
    /\ cd_out' = cd_out \o check_ollama_models(cd_env)
    /\ cd_pc' = "graphrag"
    /\ UNCHANGED <<cd_env, cd_modules, cd_commands>>

\* src/utils/check_deps.py:76-78
CheckGraphragModifications ==
    /\ UNCHANGED notCd
    /\ cd_pc = "graphrag"
    /\ \E files_exist \in BOOLEAN :
         cd_out' = cd_out \o check_graphrag_modifications(cd_env, files_exist)
    /\ cd_pc' = "status"
    /\ UNCHANGED <<cd_env, cd_modules, cd_commands>>

\* src/utils/check_deps.py:80-91
PrintOverallStatus ==
    /\ UNCHANGED notCd
    /\ cd_pc = "status"
    /\ cd_out' = cd_out \o OverallStatus(cd_modules, cd_commands)
    /\ cd_pc' = "returned"
    /\ UNCHANGED <<cd_env, cd_modules, cd_commands>>

NextCd ==
    \/ CheckModules \/ CheckCommands \/ CheckOllamaModels
    \/ CheckGraphragModifications \/ PrintOverallStatus

(***************************************************************************)
(* Specifications: one per program, the others at rest.                    *)
(***************************************************************************)
Init ==
    InitChat /\ InitConv /\ InitUdp /\ InitPd /\ InitIg /\ InitCd /\ InitPf

SpecChat == Init /\ [][NextChat]_vars

SpecConv == Init /\ [][NextConv]_vars

SpecUdp == Init /\ [][NextUdp]_vars

SpecPd == Init /\ [][NextPd]_vars

SpecIg == Init /\ [][NextIg]_vars

SpecCd == Init /\ [][NextCd]_vars

SpecPf == Init /\ [][NextPf]_vars

(***************************************************************************)
(* Claims about appUI_final_v3.py, checked under SpecChat.                 *)
(***************************************************************************)
Called == last_call.kind # Unset

\* C2: search_docs never propagates an exception to its caller: whatever
\* error occurs at whatever step, the call returns a string beginning with
\* "Error searching documents: ".
C2_SearchDocsNeverPropagates ==
    (Called /\ last_call.outcome.fail # "none") =>
        /\ last_call.kind = "return"
        /\ Head(last_call.value) = "Error searching documents: "

\* C3: when the search completes without error, search_docs returns exactly
\* "No relevant documents found." if and only if local_results is empty, and
\* otherwise one block "Document: <doc_id>\nContent: <content>" per result,
\* in the order of local_results, consecutive blocks separated by one blank
\* line, no result omitted or repeated.
C3_ResultBlocks ==
    (Called /\ last_call.outcome.fail = "none") =>
        LET r == last_call.outcome.local_results
            out == last_call.value
            n == Len(r)
        IN /\ last_call.kind = "return"
           /\ (out = <<"No relevant documents found.">>) <=> (r = <<>>)
           /\ r # <<>> =>
                /\ Len(out) = 4 * n + (n - 1)
                /\ \A i \in 1..n :
                     /\ out[5 * (i - 1) + 1] = "Document: "
                     /\ out[5 * (i - 1) + 2] = r[i].doc_id
                     /\ out[5 * (i - 1) + 3] = "\nContent: "
                     /\ out[5 * (i - 1) + 4] = r[i].content
                     /\ i < n => out[5 * i] = "\n\n"

\* A search came back with two results and was formatted.
C3_Witness ==
    /\ Called
    /\ last_call.outcome.fail = "none"
    /\ Len(last_call.outcome.local_results) = 2
    /\ last_call.outcome.local_results[1] # last_call.outcome.local_results[2]
    /\ last_call.kind = "return"

\* C4: after on_settings_update stores search_method = "local" (resp.
\* "global"), every search issued by search_docs for a later message of the
\* session has make_global = false (resp. true).
C4_SearchMethodTakesEffect ==
    (msg_pc = "chatting" /\ Called /\ last_call.issued
        /\ settings_seen.search_method # Unset) =>
        last_call.make_global = (settings_seen.search_method = "global")

\* C5: after on_settings_update reports "Settings updated: ... Model = M",
\* every later message of the session is answered by an assistant whose LLM
\* configuration names model M.
C5_ModelTakesEffect ==
    (msg_pc = "chatting" /\ settings_seen.model # Unset) =>
        msg.model = settings_seen.model

\* C12: appUI_final_v3 refuses to start without its prerequisites: if the
\* "output" directory does not exist or settings.yaml cannot be found, the
\* program exits with status 1 before any agent is created and before any
\* chat handler (on_chat_start, on_settings_update, on_message) is
\* registered, so no search or chat is ever run without an index and
\* settings.
C12_RefusesToStart ==
    /\ (startup_env.output = "missing" \/ startup_env.settings = "FileNotFoundError") =>
          /\ app_pc = "exited"
          /\ exit.status = 1
          /\ agents = {}
          /\ handlers = {}
    /\ (agents # {} \/ handlers # {}) =>
          startup_env = [output |-> "exists", settings |-> "ok"]
    /\ (chat_started \/ msg_pc # "idle" \/ Called \/ sent # <<>>) =>
          /\ startup_env = [output |-> "exists", settings |-> "ok"]
          /\ handlers = {"on_chat_start", "on_settings_update", "on_message"}
          /\ agents = {"user_proxy", "assistant"}

\* The "output" directory was there and settings.yaml was not: the program
\* said so and called sys.exit(1).
C12_Witness ==
    /\ startup_env = [output |-> "exists", settings |-> "FileNotFoundError"]
    /\ app_pc = "exited"
    /\ exit = SysExit1
    /\ startup_out = << <<"send", "system", "settings.yaml not found">>,
                        <<"print", "settings.yaml not found">> >>

\* C16: on_chat_start warns about the LiteLLM proxy exactly when it is not
\* healthy and never lets that block the session: a warning message is sent
\* if and only if the health request raised a request exception or returned
\* a status other than 200, exactly one warning is sent in that case, and
\* in every case the chat settings panel and then the welcome message are
\* sent after the health check.
C16_WarnsIffUnhealthy ==
    [][ (~chat_started /\ chat_started') =>
          LET warnings == {i \in 1..Len(sent') : sent'[i][1] = "system"}
              unhealthy == health' # "200"
              n == Len(sent')
          IN /\ health' \in {"200", "404", "503", "RequestException"}
             /\ (warnings # {}) <=> unhealthy
             /\ unhealthy => warnings = {1}
             /\ n = (IF unhealthy THEN 3 ELSE 2)
             /\ sent'[n - 1] = <<"ChatSettings">>
             /\ sent'[n] = <<"assistant", "Welcome">>
      ]_vars

\* A session started while the proxy answered 503: one warning, then the
\* settings panel, then the welcome message.
C16_Witness ==
    /\ chat_started
    /\ health = "503"
    /\ sent = << <<"system", "LiteLLM proxy server might not be running">>,
                 <<"ChatSettings">>, <<"assistant", "Welcome">> >>

(***************************************************************************)
(* Claims about the converters, checked under SpecConv.                    *)
(***************************************************************************)
Converted == conv_out.result.kind # Unset
ConvErrorPrefix == "Error: Could not convert document to Markdown"
Range(f) == {f[i] : i \in 1..Len(f)}

C9_WordMetadataHasCounts ==
    (Converted /\ conv_in.proc = "word" /\ conv_in.fail.at = "none") =>
        /\ {"word_count", "file_size"} \subseteq DictKeys(conv_out.metadata)
        /\ "error" \notin DictKeys(conv_out.metadata)
        /\ DictGet(conv_out.metadata, "word_count", "") = ToString(conv_in.doc.words)
        /\ \E line \in Range(conv_out.md) : line[1] = "fm" /\ line[2] = "word_count"

\* C10: for every page, OCR is invoked if and only if ocr_enabled is true
\* and the page's native text is blank or shorter than 50 characters; with
\* ocr_enabled false it is never invoked; extract_text and
\* convert_to_markdown decide alike for the same page.
C10_OcrDecision ==
    (Converted /\ conv_in.proc = "pdf" /\ conv_in.fail.at = "none") =>
        LET pages == conv_in.doc.pages
        IN /\ Len(conv_out.ocr_extract) = Len(pages)
           /\ Len(conv_out.ocr_convert) = Len(pages)
           /\ \A i \in 1..Len(pages) :
                LET wanted == conv_in.ocr_enabled
                              /\ (pages[i].blank \/ pages[i].len < 50)
                IN /\ conv_out.ocr_extract[i] = wanted
                   /\ conv_out.ocr_convert[i] = wanted
                   /\ (<<"text", "ocr", i>> \in Range(conv_out.md)) = wanted

\* A conversion with OCR enabled of a document with a page of exactly 50
\* characters (no OCR) and a page of 49 characters (OCR).
C10_Witness ==
    /\ Converted
    /\ conv_in.proc = "pdf"
    /\ conv_in.fail.at = "none"
    /\ conv_in.ocr_enabled
    /\ \E i, j \in 1..Len(conv_in.doc.pages) :
         /\ conv_in.doc.pages[i].len = 50 /\ ~conv_in.doc.pages[i].blank
         /\ conv_in.doc.pages[j].len = 49 /\ ~conv_in.doc.pages[j].blank
         /\ ~conv_out.ocr_convert[i]
         /\ conv_out.ocr_convert[j]

\* A PDF conversion that came back with the path of the markdown file.
PdfSucceeded ==
    /\ Converted
    /\ conv_in.proc = "pdf"
    /\ conv_out.result.kind = "return"
    /\ Head(conv_out.result.value) # ConvErrorPrefix

\* The lines of md at positions from..to - 1.
Lines(md, from, to) == [i \in 1..(to - from) |-> md[from + i - 1]]

RECURSIVE NonBlankStripped(_)
\* The paragraphs that are not blank, in order, without the white space
\* around them.
NonBlankStripped(paras) ==
    IF paras = <<>> THEN <<>>
    ELSE LET p == Head(paras)
             core == IF p = " p2 " THEN "p2" ELSE p
         IN (IF p \in {"", " "} THEN <<>> ELSE <<core>>) \o NonBlankStripped(Tail(paras))

\* The markdown written is, in this order: the front matter between two
\* "---" lines, one "# <title>" heading, and for each page in document
\* order a "## Page n" heading, n = 1, 2, ..., followed by the page's
\* non-blank paragraphs in their order (the OCR text, for a page sent to
\* OCR).
PdfMarkdownInOrder(title) ==
    LET md == conv_out.md
        pages == conv_in.doc.pages
        n == Len(pages)
        IsHeading(k, i) == /\ Len(md[k]) = 2
                           /\ md[k][1] = "## Page "
                           /\ md[k][2] = i
        closes == {k \in 2..Len(md) : md[k] = <<"---">>}
    IN /\ Len(md) >= 4
       /\ md[1] = <<"---">>
       /\ Cardinality(closes) = 1
       /\ LET close == CHOOSE k \in closes : TRUE
              pos == [i \in 1..n |-> close + 2 + i
                        + Cardinality({k \in 1..Len(md) :
                             \E j \in 1..(i - 1) :
                                 /\ k > close + 2
                                 /\ md[k][1] \in {"para", "text"}
                                 /\ \E h \in 1..(k - 1) : IsHeading(h, j)
                                 /\ \A h \in 1..(k - 1) : ~IsHeading(h, j + 1)})]
              end(i) == IF i < n THEN pos[i + 1] ELSE Len(md) + 1
          IN /\ \A k \in 2..(close - 1) : md[k][1] = "fm"
             /\ md[close + 1] = <<"">>
             /\ md[close + 2] = <<"# ", title>>
             /\ Cardinality({k \in 1..Len(md) : md[k][1] = "# "}) = 1
             /\ Cardinality({k \in 1..Len(md) : md[k][1] = "## Page "}) = n
             /\ \A i \in 1..n :
                  /\ pos[i] <= Len(md)
                  /\ IsHeading(pos[i], i)
                  /\ end(i) <= Len(md) + 1
                  /\ Lines(md, pos[i] + 1, end(i)) =
                        IF conv_in.ocr_enabled /\ (pages[i].blank \/ pages[i].len < 50)
                        THEN << <<"text", "ocr", i>> >>
                        ELSE [j \in 1..Len(NonBlankStripped(pages[i].paras)) |->
                                 <<"para", NonBlankStripped(pages[i].paras)[j]>>]

\* C11 as stated: a successful PDF conversion writes the markdown in one
\* pass in a fixed order: the front matter opened and closed by a "---"
\* line, then a single "# <title>" heading whose title is the document's
\* metadata title when it has one and the file's base name otherwise, then
\* for each page in document order a "## Page n" heading, n counting from
\* 1, each followed by that page's non-blank paragraphs in their original
\* order; no page is skipped or emitted twice.
C11_TitleOfDocumentThenPages ==
    PdfSucceeded =>
        PdfMarkdownInOrder(IF conv_in.doc.title # "" THEN conv_in.doc.title
                           ELSE conv_in.file.stem)

\* C11 as amended: the same order of front matter, heading and pages, the
\* title of the heading being the title extract_metadata returned: the
\* document's metadata title when it has one and the extraction did not
\* fail, and the file's base name otherwise (no title, or the metadata
\* could not be extracted and the front matter holds the "error" entry).
C11_ExtractedTitleThenPages ==
    PdfSucceeded =>
        PdfMarkdownInOrder(IF conv_in.doc.title # "" /\ conv_in.fail.at # "metadata"
                           THEN conv_in.doc.title
                           ELSE conv_in.file.stem)

\* A titled document of two pages was converted without OCR: the heading
\* holds the title, and the second page's three paragraphs, one of them
\* blank, gave two lines.
C11_Witness ==
    /\ PdfSucceeded
    /\ conv_in.fail.at = "none"
    /\ ~conv_in.ocr_enabled
    /\ conv_in.doc.title = "Title"
    /\ Len(conv_in.doc.pages) = 2
    /\ conv_in.doc.pages[1].blank
    /\ conv_in.doc.pages[2].paras = <<" p2 ", " ", "p1">>
    /\ Len(conv_out.md) >= 4
    /\ Lines(conv_out.md, Len(conv_out.md) - 3, Len(conv_out.md) + 1) =
          << <<"## Page ", 1>>, <<"## Page ", 2>>, <<"para", "p2">>, <<"para", "p1">> >>

(***************************************************************************)
(* Claims about the configuration of the universal processor, checked      *)
(* under SpecUdp.                                                          *)
(***************************************************************************)
Constructed == udp.exc # Unset

\* The top-level fields of the default configuration and the nested fields
\* the program reads by subscript are fields of `config`.
HasDefaultFields(config) ==
    /\ config.t = "dict"
    /\ DOMAIN default_config.v \subseteq DOMAIN config.v
    /\ GetPath3(config, "processors", "word", "enabled").exc = "none"
    /\ GetPath3(config, "processors", "pdf", "enabled").exc = "none"
    /\ config.v["file_extensions"].t = "dict"
    /\ {"word", "pdf"} \subseteq DOMAIN config.v["file_extensions"].v

\* C7: for every YAML mapping in the configuration file, each field of the
\* default configuration, the nested fields processors.word.enabled,
\* processors.pdf.enabled and file_extensions.word / .pdf included, is
\* present in the configuration _load_config returns, and constructing the
\* processor does not fail on a missing configuration key.
C7_MergeKeepsAllFields ==
    (Constructed /\ udp_in.path = "ok" /\ udp_in.yaml.t = "dict") =>
        /\ udp.loaded.exc = "none"
        /\ HasDefaultFields(udp.loaded.v)
        /\ udp.exc = "none"

\* C8: when no path is given, the path does not exist, the file cannot be
\* read or parsed, or the parsed YAML is not a mapping, _load_config does
\* not raise and returns exactly the default configuration.
C8_FallbackToDefaults ==
    (Constructed /\ (udp_in.path # "ok" \/ udp_in.yaml.t # "dict")) =>
        /\ udp.loaded.exc = "none"
        /\ udp.loaded.v = default_config
        /\ udp.exc = "none"
        /\ udp.processors = {"word", "pdf"}

\* A file holding the list of all the default keys was loaded: every key is
\* "in" it, and the merge fails only at config["processors"].
C8_Witness ==
    /\ Constructed
    /\ udp_in.path = "ok"
    /\ udp_in.yaml = PList(DefaultKeys)
    /\ udp.loaded.v = default_config

(***************************************************************************)
(* Claims about process_directory, checked under SpecPd.                   *)
(***************************************************************************)
\* The files of the listing a processor exists for, by the default
\* configuration: .docx and .doc (word), .pdf (pdf), whatever the case.
CompatibleFiles ==
    {i \in 1..Len(listing) : listing[i] \in {".pdf", ".PDF", ".docx", ".DOCX", ".doc", ".DOC"}}

\* C6: for every scheduling of the worker threads and every number of
\* compatible files (more than max_workers, or none), the returned list
\* holds exactly one result record for each compatible file found, none
\* missing and none duplicated, and the call returns only after every
\* file's processing has finished.
C6_OneResultPerCompatibleFile ==
    /\ \A i, j \in 1..Len(results) : results[i].file = results[j].file => i = j
    /\ \A i \in 1..Len(results) : results[i].file \in CompatibleFiles
    /\ pd_pc = "returned" =>
         /\ {results[i].file : i \in 1..Len(results)} = CompatibleFiles
         /\ Len(results) = Cardinality(CompatibleFiles)
         /\ \A f \in CompatibleFiles : future[f] \in Finished
         /\ \A f \in 1..Len(listing) : f \notin CompatibleFiles => future[f] = "pending"

\* process_directory has returned the records of two files processed by a
\* pool of one worker, the second file's record first.
C6_Witness ==
    /\ pd_pc = "returned"
    /\ max_workers = 1
    /\ Len(results) = 2
    /\ results[1].file > results[2].file
    /\ "raised" \in {future[f] : f \in CompatibleFiles}

(***************************************************************************)
(* Claims about init_graphrag.py, checked under SpecIg.                    *)
(***************************************************************************)
\* The functions main has called, in order.
Fns == [i \in 1..Len(ig_trace) |-> ig_trace[i].fn]
Returned(fn, result) == \E i \in 1..Len(ig_trace) : ig_trace[i] = [fn |-> fn, result |-> result]
WasCalled(fn) == \E i \in 1..Len(ig_trace) : ig_trace[i].fn = fn
Printed(line) == \E i \in 1..Len(ig_out) : ig_out[i] = line

\* C13: init_graphrag.main runs its steps in a fixed order and stops at the
\* first failure: directories are created first, then settings are copied,
\* then GraphRAG is initialised, then the sample documents are written; the
\* sample documents and the "Environment setup complete" message are
\* produced only if both copy_settings and init_graphrag returned true, and
\* when copy_settings fails init_graphrag is never run.
C13_FixedOrderStopAtFirstFailure ==
    LET order == <<"create_directories", "copy_settings", "init_graphrag",
                   "create_sample_docs">>
        docs == {"graphrag_intro.md", "autogen_info.md", "integration_guide.md"}
    IN /\ Len(Fns) <= 4
       /\ \A i \in 1..Len(Fns) : Fns[i] = order[i]
       /\ \A i \in 1..(Len(ig_trace) - 1) : ig_trace[i].result \in {"None", "True"}
       /\ (Len(ig_trace) > 0 /\ ig_trace[Len(ig_trace)].result \in {"False", "raised"}) =>
             ig_pc \in {"returned", "raised"}
       /\ (ig_files \cap docs # {} \/ Printed("Environment setup complete! Next steps:")
              \/ WasCalled("create_sample_docs")) =>
             /\ Returned("copy_settings", "True")
             /\ Returned("init_graphrag", "True")
       /\ Printed("Environment setup complete! Next steps:") => docs \subseteq ig_files
       /\ (WasCalled("copy_settings") /\ ~Returned("copy_settings", "True")) =>
             /\ ~WasCalled("init_graphrag")
             /\ "graphrag --init" \notin ig_files

\* copy_settings did not find utils/settings.yaml: main returned after two
\* calls, with the directories made and nothing else.
C13_Witness ==
    /\ ig_pc = "returned"
    /\ Returned("copy_settings", "False")
    /\ Len(ig_trace) = 2
    /\ ig_files = {}
    /\ Cardinality(ig_dirs) = 5

(***************************************************************************)
(* Claims about utils/check_deps.py, checked under SpecCd.                 *)
(***************************************************************************)
\* C14: check_deps.main prints "All required dependencies are installed"
\* only when no check of the run reported a missing item: if any of the
\* required Python modules, the ollama command, or a required Ollama model
\* (llama3, mistral, nomic-embed-text) was reported with a failure line,
\* the overall status is "Some dependencies are missing".
C14_StatusReflectsEveryCheck ==
    cd_pc = "returned" =>
        LET failures == {i \in 1..Len(cd_out) :
                            /\ cd_out[i][1] = "missing"
                            /\ cd_out[i][2] \in {"module", "command", "model"}}
        IN /\ failures # {} =>
                cd_out[Len(cd_out)] = <<"missing", "status", "Some dependencies are missing">>
           /\ cd_out[Len(cd_out)] =
                  <<"ok", "status", "All required dependencies are installed">>
                => failures = {}

(***************************************************************************)
(* Claims about process_file, checked under SpecPf.                        *)
(***************************************************************************)
\* C15: every result record returned by process_file is consistent:
\* success = true implies output_path is the written markdown path and
\* error is None, and success = false implies output_path is None and
\* error is a non-empty message; this holds for every outcome of the
\* conversion and of the backup copy.
C15_RecordConsistent ==
    pf_in # NoPfIn =>
        /\ pf_out.success =>
              /\ pf_out.output_path =
                    PStr(<<pf_in.output_dir, "/", pf_in.file.stem, ".md">>)
              /\ pf_out.error = PNone
        /\ ~pf_out.success =>
              /\ pf_out.output_path = PNone
              /\ pf_out.error.t = "str"
              /\ pf_out.error.v # <<>>

====
